---- MODULE Spec2Model ----
(***************************************************************************)
(* A model of the credit-card number engine (api/models.py) and of the two *)
(* views built on it (api/views.py).                                       *)
(*                                                                         *)
(* A Python str is a sequence of characters; a character is one of the     *)
(* tokens of Chars.  Every call is single-shot: the parameter is drawn in  *)
(* Init, one operation is applied to it, and a record that an engine call  *)
(* returned may then be serialized.                                        *)
(***************************************************************************)
EXTENDS Integers, Sequences, FiniteSets, TLC

\* ------------------------------------------------------------------ bounds

\* Number of free characters appended to a base string to form a parameter.
MaxLen == 2

\* The random source is sampled by its outcomes of period RandPeriod: the
\* i-th draw of one call is rnd[((i - 1) % RandPeriod) + 1], rnd any tuple
\* of RandPeriod values of randint(0, 9).
RandPeriod == 2

\* -------------------------------------------------------------- constants

\* api/constants.py: the configured card length.
CARD_LENGTH == 16

\* api/constants.py: the key of the number field and of the query parameter.
NUMBER == "number"

\* api/constants.py: the fixed messages of the two missing-parameter replies.
VALIDATE_BAD_REQUEST_NONE == <<"VALIDATE_BAD_REQUEST_NONE">>

GENERATE_BAD_REQUEST_NONE == <<"GENERATE_BAD_REQUEST_NONE">>

\* The message GenerateView.get sends when the engine refuses the iin.
GENERATE_BAD_IIN == <<"IINs should be only digits and either length one or two. Try 65!">>

\* ------------------------------------------------------------- characters

AsciiDigits == {"0", "1", "2", "3", "4", "5", "6", "7", "8", "9"}

\* "a": a letter.  "sup2": U+00B2 SUPERSCRIPT TWO, a digit for str.isdigit
\* that int() refuses.  "ar3": U+0663 ARABIC-INDIC DIGIT THREE, a digit for
\* str.isdigit that int() reads as 3.
Chars == AsciiDigits \cup {"a", "sup2", "ar3"}

\* The characters c with c.isdigit() true.
IsDigitChar(c) == c \in AsciiDigits \cup {"sup2", "ar3"}

\* str.isdigit(): true iff the string is non-empty and all its characters
\* are digits.
isdigit(s) == Len(s) > 0 /\ \A i \in 1..Len(s) : IsDigitChar(s[i])

\* int(c, 10) for one character; -1 stands for ValueError.
int10(c) ==
    CASE c = "0" -> 0 [] c = "1" -> 1 [] c = "2" -> 2 [] c = "3" -> 3
      [] c = "4" -> 4 [] c = "5" -> 5 [] c = "6" -> 6 [] c = "7" -> 7
      [] c = "8" -> 8 [] c = "9" -> 9 [] c = "ar3" -> 3
      [] OTHER -> -1

\* Whether int(c, 10) succeeds on every character of s.
CanInt(s) == \A i \in 1..Len(s) : int10(s[i]) >= 0

\* str(d) for d in 0..9: a string of one character.
str(d) == <<<<"0", "1", "2", "3", "4", "5", "6", "7", "8", "9">>[d + 1]>>

\* The value absent from a variable: no record, no response, no dictionary.
Nothing == [nothing |-> TRUE]

\* Python's None as the value of a field.
None == <<"None">>

Min(a, b) == IF a < b THEN a ELSE b

Max(a, b) == IF a > b THEN a ELSE b

\* A slice bound of Python, negative bounds counted from the end, clipped.
SliceBound(s, i) == IF i < 0 THEN Max(0, Len(s) + i) ELSE Min(i, Len(s))

\* s[a:b] of Python (0-based, b excluded).
PySlice(s, a, b) ==
    LET lo == SliceBound(s, a)
        hi == SliceBound(s, b)
    IN  IF hi <= lo THEN <<>> ELSE SubSeq(s, lo + 1, hi)

\* ------------------------------------------------------- the Luhn library

\* The contribution of the digit d that stands j places from the right end:
\* every second digit, starting with the one left of the last, is doubled
\* and the digits of the double are added (sum(divmod(2 * d, 10))).
LuhnTerm(d, j) == IF j % 2 = 0 THEN d ELSE ((2 * d) \div 10) + ((2 * d) % 10)

RECURSIVE LuhnSum(_, _)
\* The sum of the contributions of the first n characters of s.
LuhnSum(s, n) ==
    IF n = 0 THEN 0
    ELSE LuhnSum(s, n - 1) + LuhnTerm(int10(s[n]), Len(s) - n)

\* baluhn.luhn_sum_mod_base(string, 10), on a string int() accepts.
luhn_sum_mod_base(s) == LuhnSum(s, Len(s)) % 10

\* baluhn.verify(string), on a string int() accepts.
verify(s) == luhn_sum_mod_base(s) = 0

\* baluhn.generate(string), on a string int() accepts: the check character.
generate(s) ==
    LET d == luhn_sum_mod_base(s \o <<"0">>)
    IN  str(IF d # 0 THEN 10 - d ELSE 0)

\* ------------------------------------------------------------- the engine

\* The attributes of a CreditCard instance: __dict__, in which Django keeps
\* _state and id beside the six fields.
CreditCard(number, mii, iin, pan, cd, valid) ==
    [_state |-> <<"ModelState">>,
     id |-> None,
     number |-> number,
     major_industry_identifier |-> mii,
     issuer_identification_number |-> iin,
     personal_account_number |-> pan,
     check_digit |-> cd,
     is_valid |-> valid]

\* One entry of the log: the logger's module and the level.
LogEntry(logger, level) == [logger |-> logger, level |-> level]

\* What a call leaves behind: the exception raised ("none": it returned),
\* the value returned, the entries logged, the random digits drawn.
Outcome(exc, ret, logged, drawn) ==
    [exc |-> exc, ret |-> ret, logged |-> logged, drawn |-> drawn]

\* s[i] of Python: the one-character string at index i (negative: from the
\* end).
PyIndex(s, i) == IF i < 0 THEN <<s[Len(s) + i + 1]>> ELSE <<s[i + 1]>>

\* The outcome of the rejection in from_number: one error is logged, then
\* InvalidCardNumberError is raised.
RejectNumber ==
    Outcome("InvalidCardNumberError", Nothing,
            <<LogEntry("api.models", "error")>>, 0)

\* from_number in which the personal account number runs to the end of the
\* string (number[6:]).
from_number_pan_to_end(number) ==
    IF ~isdigit(number) THEN RejectNumber
    ELSE IF ~CanInt(number) THEN Outcome("ValueError", Nothing, <<>>, 0)
    ELSE IF ~verify(number) THEN RejectNumber
    ELSE Outcome("none",
                 CreditCard(number, PyIndex(number, 0), PySlice(number, 0, 6),
                            PySlice(number, 6, Len(number)),
                            PyIndex(number, -1), TRUE),
                 <<>>, 0)

\* from_number in which the issuer identification number is one character
\* short (number[:5]).
from_number_short_iin(number) ==
    IF ~isdigit(number) THEN RejectNumber
    ELSE IF ~CanInt(number) THEN Outcome("ValueError", Nothing, <<>>, 0)
    ELSE IF ~verify(number) THEN RejectNumber
    ELSE Outcome("none",
                 CreditCard(number, PyIndex(number, 0), PySlice(number, 0, 5),
                            PySlice(number, 6, -1), PyIndex(number, -1), TRUE),
                 <<>>, 0)

\* from_number that logs on the success path too.
from_number_logs_success(number) ==
    IF ~isdigit(number) THEN RejectNumber
    ELSE IF ~CanInt(number) THEN Outcome("ValueError", Nothing, <<>>, 0)
    ELSE IF ~verify(number) THEN RejectNumber
    ELSE Outcome("none",
                 CreditCard(number, PyIndex(number, 0), PySlice(number, 0, 6),
                            PySlice(number, 6, -1), PyIndex(number, -1), TRUE),
                 <<LogEntry("api.models", "info")>>, 0)

\* CreditCard.from_number(number).  `not number.isdigit() or not
\* verify(number)`: verify is reached only by a string isdigit accepts, and
\* raises ValueError on a character int() refuses.
from_number(number) ==
    IF ~isdigit(number) THEN RejectNumber
    ELSE IF ~CanInt(number) THEN Outcome("ValueError", Nothing, <<>>, 0)
    ELSE IF ~verify(number) THEN RejectNumber
    ELSE Outcome("none",
                 CreditCard(number, PyIndex(number, 0), PySlice(number, 0, 6),
                            PySlice(number, 6, -1), PyIndex(number, -1), TRUE),
                 <<>>, 0)

\* with_invalid_number that validates: a number from_number accepts is
\* returned as a valid record.
with_invalid_number_validating(number) ==
    IF from_number(number).exc = "none"
    THEN Outcome("none", from_number(number).ret, <<>>, 0)
    ELSE Outcome("none",
                 CreditCard(number, None, None, None, None, FALSE), <<>>, 0)

\* CreditCard.with_invalid_number(number): cls(number=number), every other
\* field at its default (None; is_valid False).
with_invalid_number(number) ==
    Outcome("none", CreditCard(number, None, None, None, None, FALSE), <<>>, 0)

\* The test that opens generate_from_iin: the iin is refused unless it has
\* one or two characters and isdigit accepts it.
IinRefused(iin) == ~(0 < Len(iin) /\ Len(iin) < 3) \/ ~isdigit(iin)

\* The middle digits of one call, joined: n draws of randint(0, 9), each
\* turned into a string.
MiddleDigits(rnd, n) ==
    [i \in 1..n |-> str(rnd[((i - 1) % RandPeriod) + 1])[1]]

\* generate_from_iin that forgets the place of the check digit
\* (CARD_LENGTH - len(iin) middle digits).
generate_from_iin_no_room(iin, rnd) ==
    IF IinRefused(iin)
    THEN Outcome("InvalidIinError", Nothing, <<>>, 0)
    ELSE LET middle_digits_len == CARD_LENGTH - Len(iin)
             digits_without_check_digit ==
                 iin \o MiddleDigits(rnd, middle_digits_len)
         IN  IF ~CanInt(digits_without_check_digit)
             THEN Outcome("ValueError", Nothing, <<>>, middle_digits_len)
             ELSE LET number == digits_without_check_digit
                                \o generate(digits_without_check_digit)
                      r == from_number(number)
                  IN  Outcome(r.exc, r.ret, r.logged, middle_digits_len)

\* generate_from_iin that builds the record itself, the personal account
\* number running to the end of the string.
generate_from_iin_own_record(iin, rnd) ==
    IF IinRefused(iin)
    THEN Outcome("InvalidIinError", Nothing, <<>>, 0)
    ELSE LET middle_digits_len == CARD_LENGTH - Len(iin) - 1
             digits_without_check_digit ==
                 iin \o MiddleDigits(rnd, middle_digits_len)
         IN  IF ~CanInt(digits_without_check_digit)
             THEN Outcome("ValueError", Nothing, <<>>, middle_digits_len)
             ELSE LET number == digits_without_check_digit
                                \o generate(digits_without_check_digit)
                      r == from_number_pan_to_end(number)
                  IN  Outcome(r.exc, r.ret, r.logged, middle_digits_len)

\* CreditCard.generate_from_iin(iin), rnd the outcome of the random source.
\* The generator of the middle digits is consumed by "".join, before
\* generate is called; generate raises ValueError on a character int()
\* refuses.
generate_from_iin(iin, rnd) ==
    IF IinRefused(iin)
    THEN Outcome("InvalidIinError", Nothing, <<>>, 0)
    ELSE LET middle_digits_len == CARD_LENGTH - Len(iin) - 1
             digits_without_check_digit ==
                 iin \o MiddleDigits(rnd, middle_digits_len)
         IN  IF ~CanInt(digits_without_check_digit)
             THEN Outcome("ValueError", Nothing, <<>>, middle_digits_len)
             ELSE LET number == digits_without_check_digit
                                \o generate(digits_without_check_digit)
                      r == from_number(number)
                  IN  Outcome(r.exc, r.ret, r.logged, middle_digits_len)

\* CreditCard.__iter__ as dict(self) reads it: the attributes except _state
\* and id.
Items(self) == [k \in (DOMAIN self) \ {"_state", "id"} |-> self[k]]

\* serialized that works on the instance's own __dict__: the deletion of
\* the number reaches the instance.
serialized_aliasing(self, with_number) ==
    IF with_number
    THEN [self |-> self, res |-> Items(self)]
    ELSE [self |-> [k \in (DOMAIN self) \ {NUMBER} |-> self[k]],
          res |-> [k \in (DOMAIN Items(self)) \ {NUMBER} |-> self[k]]]

\* CreditCard.serialized(self, with_number): the dictionary returned (res)
\* and the instance after the call (self).
serialized(self, with_number) ==
    LET res == Items(self)
    IN  [self |-> self,
         res |-> IF ~with_number
                 THEN [k \in (DOMAIN res) \ {NUMBER} |-> res[k]]
                 ELSE res]

\* --------------------------------------------------------------- the views

\* JsonResponse(data) with its status code.
JsonResponse(data, status) == [status |-> status, content |-> data]

\* ValidateView.get that forgets the status code of the failure reply.
ValidateView_get_ok_on_failure(number) ==
    LET received == <<LogEntry("api.views", "info")>>
    IN  IF number = None
        THEN Outcome("none",
                     JsonResponse([error |-> VALIDATE_BAD_REQUEST_NONE], 400),
                     received \o <<LogEntry("api.views", "warning")>>, 0)
        ELSE LET r == from_number(number)
             IN  IF r.exc = "InvalidCardNumberError"
                 THEN Outcome("none",
                              JsonResponse(
                                  serialized(with_invalid_number(number).ret,
                                             FALSE).res, 200),
                              received \o r.logged
                                  \o <<LogEntry("api.views", "warning")>>, 0)
                 ELSE IF r.exc # "none"
                 THEN Outcome(r.exc, Nothing, received \o r.logged, 0)
                 ELSE Outcome("none",
                              JsonResponse(serialized(r.ret, FALSE).res, 200),
                              received \o r.logged
                                  \o <<LogEntry("api.views", "info"),
                                       LogEntry("api.views", "debug")>>, 0)

\* ValidateView.get(request), number the value of request.GET.get(NUMBER):
\* None when the parameter is missing.  An exception other than
\* InvalidCardNumberError is not caught.
ValidateView_get(number) ==
    LET received == <<LogEntry("api.views", "info")>>
    IN  IF number = None
        THEN Outcome("none",
                     JsonResponse([error |-> VALIDATE_BAD_REQUEST_NONE], 400),
                     received \o <<LogEntry("api.views", "warning")>>, 0)
        ELSE LET r == from_number(number)
             IN  IF r.exc = "InvalidCardNumberError"
                 THEN Outcome("none",
                              JsonResponse(
                                  serialized(with_invalid_number(number).ret,
                                             FALSE).res, 400),
                              received \o r.logged
                                  \o <<LogEntry("api.views", "warning")>>, 0)
                 ELSE IF r.exc # "none"
                 THEN Outcome(r.exc, Nothing, received \o r.logged, 0)
                 ELSE Outcome("none",
                              JsonResponse(serialized(r.ret, FALSE).res, 200),
                              received \o r.logged
                                  \o <<LogEntry("api.views", "info"),
                                       LogEntry("api.views", "debug")>>, 0)

\* GenerateView.get(request), iin the value of request.GET.get("iin").  An
\* exception other than InvalidIinError is not caught.
GenerateView_get(iin, rnd) ==
    LET received == <<LogEntry("api.views", "info")>>
    IN  IF iin = None
        THEN Outcome("none",
                     JsonResponse([error |-> GENERATE_BAD_REQUEST_NONE], 400),
                     received \o <<LogEntry("api.views", "warning")>>, 0)
        ELSE LET r == generate_from_iin(iin, rnd)
                 found == received \o <<LogEntry("api.views", "info")>>
             IN  IF r.exc = "InvalidIinError"
                 THEN Outcome("none",
                              JsonResponse([error |-> GENERATE_BAD_IIN], 400),
                              found \o r.logged
                                  \o <<LogEntry("api.views", "warning")>>,
                              r.drawn)
                 ELSE IF r.exc # "none"
                 THEN Outcome(r.exc, Nothing, found \o r.logged, r.drawn)
                 ELSE Outcome("none",
                              JsonResponse(serialized(r.ret, TRUE).res, 200),
                              found \o r.logged
                                  \o <<LogEntry("api.views", "info"),
                                       LogEntry("api.views", "debug")>>,
                              r.drawn)

\* ------------------------------------------------------- the state machine

VARIABLES
    arg,          \* the parameter of the call: a str, or None (missing)
    pc,           \* "start", "returned", "raised" or "serialized"
    op,           \* the operation called ("none" before the call)
    raised,       \* the exception the call raised ("none": none)
    card,         \* the CreditCard instance an engine call returned
    response,     \* the HTTP response a view returned
    data,         \* the dictionary serialized returned
    with_number,  \* the flag serialized was called with
    log,          \* the entries logged so far
    draws         \* the number of random digits drawn so far

vars == <<arg, pc, op, raised, card, response, data, with_number, log, draws>>

\* The strings of at most n characters.
Strings(n) == UNION {[1..k -> Chars] : k \in 0..n}

\* The strings the free characters are appended to: the empty string, one
\* digit, and the first five and the first fourteen characters of the
\* numbers of the documentation and of the tests (4503495455532271, which
\* is valid, and 1234567890123456, which is not).
Bases ==
    {<<>>,
     <<"1">>,
     <<"4", "5", "0", "3", "4">>,
     <<"4", "5", "0", "3", "4", "9", "5", "4", "5", "5", "5", "3", "2", "2">>,
     <<"1", "2", "3", "4", "5", "6", "7", "8", "9", "0", "1", "2", "3", "4">>}

\* The parameters a call is made with.
Inputs == {b \o s : b \in Bases, s \in Strings(MaxLen)}

\* The outcomes of the random source within one call of generate_from_iin:
\* a call that refuses its iin draws nothing.
RandomOutcomes(iin) ==
    IF iin = None \/ IinRefused(iin) THEN {<<>>} ELSE [1..RandPeriod -> 0..9]

EngineOps == {"from_number", "with_invalid_number", "generate_from_iin"}

Init ==
    /\ arg \in Inputs \cup {None}
    /\ pc = "start"
    /\ op = "none"
    /\ raised = "none"
    /\ card = Nothing
    /\ response = Nothing
    /\ data = Nothing
    /\ with_number = FALSE
    /\ log = <<>>
    /\ draws = 0

\* The state after a call of an engine operation with outcome r.
EngineReturns(name, r) ==
    /\ op' = name
    /\ raised' = r.exc
    /\ pc' = IF r.exc = "none" THEN "returned" ELSE "raised"
    /\ card' = r.ret
    /\ log' = log \o r.logged
    /\ draws' = draws + r.drawn
    /\ UNCHANGED <<arg, response, data, with_number>>

\* The state after a call of a view with outcome r.
ViewReturns(name, r) ==
    /\ op' = name
    /\ raised' = r.exc
    /\ pc' = IF r.exc = "none" THEN "returned" ELSE "raised"
    /\ response' = r.ret
    /\ log' = log \o r.logged
    /\ draws' = draws + r.drawn
    /\ UNCHANGED <<arg, card, data, with_number>>

FromNumber ==
    /\ pc = "start"
    /\ arg # None
    /\ EngineReturns("from_number", from_number(arg))

WithInvalidNumber ==
    /\ pc = "start"
    /\ arg # None
    /\ EngineReturns("with_invalid_number", with_invalid_number(arg))

GenerateFromIin ==
    /\ pc = "start"
    /\ arg # None
    /\ \E rnd \in RandomOutcomes(arg) :
           EngineReturns("generate_from_iin", generate_from_iin(arg, rnd))

Serialized ==
    /\ pc = "returned"
    /\ op \in EngineOps
    /\ \E flag \in BOOLEAN :
           LET r == serialized(card, flag)
           IN  /\ with_number' = flag
               /\ card' = r.self
               /\ data' = r.res
    /\ pc' = "serialized"
    /\ UNCHANGED <<arg, op, raised, response, log, draws>>

ValidateViewGet ==
    /\ pc = "start"
    /\ ViewReturns("ValidateView.get", ValidateView_get(arg))

GenerateViewGet ==
    /\ pc = "start"
    /\ \E rnd \in RandomOutcomes(arg) :
           ViewReturns("GenerateView.get", GenerateView_get(arg, rnd))

Next ==
    \/ FromNumber
    \/ WithInvalidNumber
    \/ GenerateFromIin
    \/ Serialized
    \/ ValidateViewGet
    \/ GenerateViewGet

Spec == Init /\ [][Next]_vars

\* ---------------------------------------------------------- the claims

\* Whether every character of s is one of the decimal digits 0-9.
AllAscii(s) == \A i \in 1..Len(s) : s[i] \in AsciiDigits

\* The value of one of the characters 0-9.
DigitValue(c) == CHOOSE d \in 0..9 : str(d) = <<c>>

RECURSIVE WeightedSum(_, _)
\* The Luhn weighted sum of the last n characters of a string of the digits
\* 0-9, as the specification words it: from the rightmost digit leftwards,
\* every second digit is doubled, and 9 is subtracted from a double of 10
\* or more.
WeightedSum(s, n) ==
    IF n = 0 THEN 0
    ELSE LET d == DigitValue(s[Len(s) - n + 1])
             w == IF n % 2 = 1 THEN d
                  ELSE IF 2 * d >= 10 THEN 2 * d - 9 ELSE 2 * d
         IN  w + WeightedSum(s, n - 1)

\* The Luhn check of a string of the digits 0-9.
LuhnValid(s) == WeightedSum(s, Len(s)) % 10 = 0

\* The keys of a serialized record, the number left out.
StructuralKeys ==
    {"major_industry_identifier", "issuer_identification_number",
     "personal_account_number", "check_digit", "is_valid"}

\* The concatenation of the fields of record c that is to give its number.
FieldsJoined(c) ==
    c.major_industry_identifier
        \o SubSeq(c.issuer_identification_number, 2,
                  Len(c.issuer_identification_number))
        \o c.personal_account_number
        \o c.check_digit

\* C1: from_number raises InvalidCardNumberError on every string that is
\* not made of the digits 0-9 only (the empty string included) or that
\* fails the Luhn check; on every other string it raises nothing and
\* returns a record with is_valid true; it raises no other exception.
C1_FromNumberContract ==
    (op = "from_number" /\ pc # "start") =>
        IF Len(arg) >= 1 /\ AllAscii(arg) /\ LuhnValid(arg)
        THEN raised = "none" /\ card # Nothing /\ card.is_valid = TRUE
        ELSE raised = "InvalidCardNumberError" /\ card = Nothing

\* C2: the record from_number returns holds the input unchanged as its
\* number, the character at index 0 as major industry identifier, the
\* characters at the indices 0..5 as issuer identification number, those
\* from index 6 up to the last excluded as personal account number, and
\* the last character as check digit.
C2_Decomposition ==
    (op = "from_number" /\ pc = "returned") =>
        LET n == Len(arg)
            iin == card.issuer_identification_number
            pan == card.personal_account_number
        IN  /\ card.number = arg
            /\ card.major_industry_identifier = <<arg[1]>>
            /\ Len(iin) = Min(6, n)
            /\ \A i \in 1..Len(iin) : iin[i] = arg[i]
            /\ Len(pan) = Max(0, n - 7)
            /\ \A i \in 1..Len(pan) : pan[i] = arg[6 + i]
            /\ card.check_digit = <<arg[n]>>

\* A number of the configured length has been accepted by from_number.
C2_Witness ==
    op = "from_number" /\ pc = "returned" /\ Len(arg) = CARD_LENGTH

\* C3, as stated: every record with is_valid true that from_number or
\* generate_from_iin returns is the concatenation of its fields and has
\* the configured length.
C3_Original ==
    (op \in {"from_number", "generate_from_iin"} /\ pc = "returned"
         /\ card.is_valid) =>
        /\ FieldsJoined(card) = card.number
        /\ Len(card.number) = CARD_LENGTH

\* C3, amended: a record generate_from_iin returns is the concatenation of
\* its fields and has the configured length; a record from_number returns
\* has the length of the input, whatever it is, and is the concatenation
\* of its fields exactly when that length is at least 7.
C3_Amended ==
    /\ (op = "generate_from_iin" /\ pc = "returned" /\ card.is_valid) =>
           /\ FieldsJoined(card) = card.number
           /\ Len(card.number) = CARD_LENGTH
    /\ (op = "from_number" /\ pc = "returned" /\ card.is_valid) =>
           /\ Len(card.number) = Len(arg)
           /\ (FieldsJoined(card) = card.number) <=> (Len(card.number) >= 7)

\* from_number has accepted a number of at least 7 characters that has not
\* the configured length.
C3_Witness ==
    /\ op = "from_number"
    /\ pc = "returned"
    /\ card.is_valid
    /\ Len(card.number) >= 7
    /\ Len(card.number) # CARD_LENGTH

\* A character that is a decimal digit in the widest sense: 0-9, or the
\* decimal digit of another script.
IsDecimalDigit(c) == c \in AsciiDigits \cup {"ar3"}

\* C4: generate_from_iin raises InvalidIinError unless the iin has one or
\* two characters, all of them decimal digits, and it does so before any
\* random digit is drawn.
C4_IinContract ==
    (op = "generate_from_iin" /\ pc # "start"
         /\ ~(/\ 1 <= Len(arg)
              /\ Len(arg) <= 2
              /\ \A i \in 1..Len(arg) : IsDecimalDigit(arg[i]))) =>
        raised = "InvalidIinError" /\ draws = 0

\* C5: with a prefix of one or two of the digits 0-9, and whatever the
\* random digits, generate_from_iin raises nothing and returns a record
\* whose number starts with the prefix, has the configured length, is made
\* of the digits 0-9, passes the Luhn check and has is_valid true: the
\* check digit computed for the first L-1 digits is the one digit that
\* completes them.
C5_Generation ==
    (op = "generate_from_iin" /\ pc # "start"
         /\ 1 <= Len(arg) /\ Len(arg) <= 2 /\ AllAscii(arg)) =>
        /\ raised = "none"
        /\ card # Nothing
        /\ card.is_valid = TRUE
        /\ Len(card.number) = CARD_LENGTH
        /\ SubSeq(card.number, 1, Len(arg)) = arg
        /\ AllAscii(card.number)
        /\ LuhnValid(card.number)
        /\ draws = CARD_LENGTH - Len(arg) - 1

\* A number has been generated from the prefix 45 of the tests, with two
\* different random digits among the middle ones.
C5_Witness ==
    /\ op = "generate_from_iin"
    /\ pc = "returned"
    /\ arg = <<"4", "5">>
    /\ card.number[3] # card.number[4]

\* C6: from_number, called on the number of a record generate_from_iin
\* returned, succeeds and returns a record equal to it in every field.
C6_RoundTrip ==
    (op = "generate_from_iin" /\ pc = "returned") =>
        /\ from_number(card.number).exc = "none"
        /\ \A k \in StructuralKeys \cup {NUMBER} :
               from_number(card.number).ret[k] = card[k]

\* A record has been generated from a two-digit prefix.
C6_Witness ==
    /\ op = "generate_from_iin"
    /\ pc = "returned"
    /\ Len(arg) = 2
    /\ AllAscii(arg)
    /\ card.personal_account_number # <<>>

\* C7: with_invalid_number returns, for every string, a record with
\* is_valid false, the string as number and the four structural fields
\* None; a record from_number or generate_from_iin returns has is_valid
\* true and none of the structural fields None.
C7_Placeholder ==
    /\ (op = "with_invalid_number" /\ pc # "start") =>
           /\ raised = "none"
           /\ card # Nothing
           /\ card.is_valid = FALSE
           /\ card.number = arg
           /\ card.major_industry_identifier = None
           /\ card.issuer_identification_number = None
           /\ card.personal_account_number = None
           /\ card.check_digit = None
    /\ (op \in {"from_number", "generate_from_iin"} /\ pc = "returned") =>
           /\ card # Nothing
           /\ card.is_valid = TRUE
           /\ card.major_industry_identifier # None
           /\ card.issuer_identification_number # None
           /\ card.personal_account_number # None
           /\ card.check_digit # None

\* with_invalid_number has been called with a number from_number accepts.
C7_Witness ==
    /\ op = "with_invalid_number"
    /\ pc = "returned"
    /\ Len(arg) = CARD_LENGTH
    /\ AllAscii(arg)
    /\ LuhnValid(arg)

\* The body of the reply to a number that was refused.
PlaceholderBody ==
    [major_industry_identifier |-> None,
     issuer_identification_number |-> None,
     personal_account_number |-> None,
     check_digit |-> None,
     is_valid |-> FALSE]

\* C8: ValidateView.get answers a missing number with status 400 and an
\* error message, a number from_number rejects with status 400 and the
\* serialized placeholder (no number key), a number from_number accepts
\* with status 200 and the serialized record; status 200 is the answer in
\* the last case only.
C8_ValidateView ==
    (op = "ValidateView.get" /\ pc # "start") =>
        /\ arg = None =>
               /\ response # Nothing
               /\ response.status = 400
               /\ response.content = [error |-> VALIDATE_BAD_REQUEST_NONE]
        /\ (arg # None /\ from_number(arg).exc = "InvalidCardNumberError") =>
               /\ response # Nothing
               /\ response.status = 400
               /\ response.content = PlaceholderBody
        /\ (arg # None /\ from_number(arg).exc = "none") =>
               /\ response # Nothing
               /\ response.status = 200
               /\ DOMAIN response.content = StructuralKeys
               /\ \A k \in StructuralKeys :
                      response.content[k] = from_number(arg).ret[k]
        /\ (response # Nothing /\ response.status = 200) =>
               (arg # None /\ from_number(arg).exc = "none")

\* ValidateView.get has answered a number that from_number rejects.
C8_Witness ==
    /\ op = "ValidateView.get"
    /\ pc = "returned"
    /\ arg # None
    /\ from_number(arg).exc = "InvalidCardNumberError"
    /\ response.status = 400

====
